---- MODULE Spec2Model ----
(***************************************************************************)
(* Mutation-network widget: the result parser (MutationNetworkService.     *)
(* parseResultCsv), the request orchestration of the MutationNetwork       *)
(* component (onStart and its submit -> download -> read -> parse          *)
(* pipeline), and its view: the resize listeners, renderGraph, the force   *)
(* simulation and the drag handlers.                                       *)
(*                                                                         *)
(* Specifications: Spec and FairSpec (the handlers of the form, the runs   *)
(* and the secondary download), StageSpec (the runs with their render      *)
(* timers), RenderSpec (the view and the drawing), ParseSpec (the parser). *)
(*                                                                         *)
(* Text is a sequence of one-character strings, so that splitting,         *)
(* trimming, quote stripping and lower-casing are computed character by    *)
(* character as the JavaScript does.                                       *)
(***************************************************************************)
EXTENDS Integers, Sequences, FiniteSets, TLC

VARIABLES
    \* ---- parser harness (MutationNetworkService.parseResultCsv) ----
    content,            \* the text handed to parseResultCsv
    headerOmitted,      \* input: the backend wrote no header line, every line is a path step
    result,             \* Null, or the MutationNetworkGraphData returned for content
    \* ---- MutationNetwork component ----
    savedFileName,      \* string
    uploadComplete,     \* boolean
    startSequence,      \* string (form field)
    endSequence,        \* string (form field)
    isProcessing,       \* signal<boolean>
    processedFileName,  \* signal<string>
    graphData,          \* signal<MutationNetworkGraphData | null>
    errorMessage,       \* signal<string | null>
    pipelines,          \* live subscriptions created by onStart: submit call or result download in flight
    reads,              \* the runs whose FileReader.readAsText has not called onload yet
    downloads,          \* the filenames onDownload has requested and not yet got an answer for
    runCount,           \* number of runs started so far (the id of the latest run)
    graphRun,           \* history: the run whose result graphData was parsed from (0: none)
    lastEvent,          \* history: the handler that ran last, with its input ("input": a form,
                        \* file or upload event)
    renderTimer,        \* a setTimeout(() => this.renderGraph(), 50) of reader.onload is pending
    \* ---- the view of the component and the drawing of renderGraph ----
    containerConditional, \* input: the template renders #graphContainer only while graphData is set
    hasResizeObserver,  \* input: the runtime provides globalThis.ResizeObserver
    lifecycle,          \* "constructed", "viewInit" (after ngAfterViewInit), "destroyed"
    containerInDom,     \* the #graphContainer element exists (graphContainer is resolved)
    clientSize,         \* "positive" or "zero": clientWidth and clientHeight of the container
    observing,          \* this.resizeObserver is set and observes the container
    windowListener,     \* _onWindowResize is registered for the window's resize event
    sim,                \* Null, or the simulation of the drawing in the container
    gestures            \* per node of the drawing, the drag gestures in progress on its circle

parserVars == <<content, headerOmitted, result>>
widgetVars == <<savedFileName, uploadComplete, startSequence, endSequence,
                isProcessing, processedFileName, graphData, errorMessage,
                pipelines, reads, downloads, runCount, graphRun, lastEvent>>
viewVars == <<containerConditional, hasResizeObserver, lifecycle, containerInDom, clientSize,
              observing, windowListener, sim, gestures>>
vars == <<parserVars, widgetVars, renderTimer, viewVars>>

\* T | null: null is the empty sequence, a value x is <<x>>
Null == <<>>
Some(x) == <<x>>

(***************************************************************************)
(* Characters and JavaScript string primitives                             *)
(***************************************************************************)
TAB == "\t"
CR == "\r"
LF == "\n"
QUOTE == "\""
COMMA == ","
SPACE == " "

\* String.prototype.trim removes these (the white space the inputs use).
WhiteSpace == {SPACE, TAB, CR, LF}

MinOf(S) == CHOOSE x \in S : \A y \in S : x <= y
MaxOf(S) == CHOOSE x \in S : \A y \in S : x >= y

\* s.trim()
Trim(s) ==
    LET keep == {i \in 1..Len(s) : s[i] \notin WhiteSpace}
    IN  IF keep = {} THEN <<>> ELSE SubSeq(s, MinOf(keep), MaxOf(keep))

\* s.includes(c)
Includes(s, c) == \E i \in 1..Len(s) : s[i] = c

\* s.split(c): the pieces between the occurrences of c, empty pieces kept
RECURSIVE Split(_, _)
Split(s, c) ==
    IF Includes(s, c)
    THEN LET i == MinOf({k \in 1..Len(s) : s[k] = c})
         IN  <<SubSeq(s, 1, i - 1)>> \o Split(SubSeq(s, i + 1, Len(s)), c)
    ELSE <<s>>

UpperCase == <<"A","B","C","D","E","F","G","H","I","J","K","L","M",
               "N","O","P","Q","R","S","T","U","V","W","X","Y","Z">>
LowerCase == <<"a","b","c","d","e","f","g","h","i","j","k","l","m",
               "n","o","p","q","r","s","t","u","v","w","x","y","z">>

\* s.toLowerCase()
ToLowerCase(s) ==
    [i \in 1..Len(s) |->
        IF \E k \in 1..26 : UpperCase[k] = s[i]
        THEN LowerCase[CHOOSE k \in 1..26 : UpperCase[k] = s[i]]
        ELSE s[i]]

\* h.replace(/^"|"$/g, ''): one quote off the very start, one off the very end
StripQuotes(h) ==
    LET a == IF h # <<>> /\ h[1] = QUOTE THEN Tail(h) ELSE h
    IN  IF a # <<>> /\ a[Len(a)] = QUOTE THEN SubSeq(a, 1, Len(a) - 1) ELSE a

Digits == <<"0","1","2","3","4","5","6","7","8","9">>
IsDigit(c) == \E d \in 1..10 : Digits[d] = c
DigitVal(c) == (CHOOSE d \in 1..10 : Digits[d] = c) - 1

RECURSIVE DigitsValue(_, _)
DigitsValue(s, acc) ==
    IF s = <<>> \/ ~IsDigit(s[1]) THEN acc
    ELSE DigitsValue(Tail(s), acc * 10 + DigitVal(s[1]))

\* parseInt(s, 10): leading white space skipped, optional sign, then the longest
\* run of decimal digits; NaN when there is no digit.
ParseInt(s) ==
    LET keep == {i \in 1..Len(s) : s[i] \notin WhiteSpace}
        t    == IF keep = {} THEN <<>> ELSE SubSeq(s, MinOf(keep), Len(s))
        neg  == t # <<>> /\ t[1] = "-"
        body == IF t # <<>> /\ t[1] \in {"-", "+"} THEN Tail(t) ELSE t
    IN  IF body = <<>> \/ ~IsDigit(body[1])
        THEN [nan |-> TRUE, val |-> 0]
        ELSE [nan |-> FALSE,
              val |-> IF neg THEN 0 - DigitsValue(body, 0) ELSE DigitsValue(body, 0)]

\* parseInt(s ?? '0', 10) || 0
CostOf(s) == LET p == ParseInt(s) IN IF p.nan THEN 0 ELSE p.val

(***************************************************************************)
(* MutationNetworkService.parseResultCsv                                   *)
(***************************************************************************)
FROM_SEQUENCE == <<"f","r","o","m","_","s","e","q","u","e","n","c","e">>
TO_SEQUENCE == <<"t","o","_","s","e","q","u","e","n","c","e">>
TRANSITION_COST == <<"t","r","a","n","s","i","t","i","o","n","_","c","o","s","t">>

EmptyGraph == [steps |-> <<>>, nodes |-> <<>>, links |-> <<>>]

\* content.split('\n').filter(line => line.trim())
NonBlankLines(text) == SelectSeq(Split(text, LF), LAMBDA line : Trim(line) # <<>>)

\* lines[0].includes('\t') ? '\t' : ','
SepOf(headerLine) == IF Includes(headerLine, TAB) THEN TAB ELSE COMMA

\* h => h.replace(/^"|"$/g, '').trim().toLowerCase()
NormalizeHeader(h) == ToLowerCase(Trim(StripQuotes(h)))

\* lines[0].split(sep).map(...)
HeadersOf(headerLine) ==
    LET toks == Split(headerLine, SepOf(headerLine))
    IN  [i \in 1..Len(toks) |-> NormalizeHeader(toks[i])]

\* headers.findIndex(h => h === name): 0-based, -1 when absent
FindIndex(headers, name) ==
    IF \E i \in 1..Len(headers) : headers[i] = name
    THEN MinOf({i \in 1..Len(headers) : headers[i] = name}) - 1
    ELSE -1

\* findIndex(...) >= 0 ? findIndex(...) : fallback
ColumnIndex(headers, name, fallback) ==
    IF FindIndex(headers, name) >= 0 THEN FindIndex(headers, name) ELSE fallback

fromIdx(headers) == ColumnIndex(headers, FROM_SEQUENCE, 0)
toIdx(headers) == ColumnIndex(headers, TO_SEQUENCE, 1)
costIdx(headers) == ColumnIndex(headers, TRANSITION_COST, 2)

\* the loop of parseRow from character i on
RECURSIVE ParseRowFrom(_, _, _, _, _, _)
ParseRowFrom(line, sep, i, inQuotes, current, acc) ==
    IF i > Len(line) THEN Append(acc, Trim(current))
    ELSE IF line[i] = QUOTE
         THEN ParseRowFrom(line, sep, i + 1, ~inQuotes, current, acc)
    ELSE IF line[i] = sep /\ ~inQuotes
         THEN ParseRowFrom(line, sep, i + 1, inQuotes, <<>>, Append(acc, Trim(current)))
    ELSE ParseRowFrom(line, sep, i + 1, inQuotes, Append(current, line[i]), acc)

\* a tokenizer that splits at every separator and drops the quotes afterwards
parseRow_splitsInsideQuotes(line, sep) ==
    LET pieces == Split(line, sep)
    IN  [i \in 1..Len(pieces) |-> Trim(SelectSeq(pieces[i], LAMBDA c : c # QUOTE))]

parseRow(line, sep) == ParseRowFrom(line, sep, 1, FALSE, <<>>, <<>>)

\* cols[idx] ?? dflt   (idx is 0-based)
ColOr(cols, idx, dflt) == IF idx + 1 <= Len(cols) THEN cols[idx + 1] ELSE dflt

\* the row loop's body keeping a row when either field is filled
StepsOfRow_keepsHalfEmpty(line, sep, fi, ti, ci) ==
    LET cols    == parseRow(line, sep)
        fromSeq == ColOr(cols, fi, <<>>)
        toSeq   == ColOr(cols, ti, <<>>)
        cost    == CostOf(ColOr(cols, ci, <<"0">>))
    IN  IF fromSeq # <<>> \/ toSeq # <<>>
        THEN <<[fromSequence |-> fromSeq, toSequence |-> toSeq, transitionCost |-> cost]>>
        ELSE <<>>

\* the body of the row loop for one line: the step pushed, if any
StepsOfRow(line, sep, fi, ti, ci) ==
    LET cols    == parseRow(line, sep)
        fromSeq == ColOr(cols, fi, <<>>)
        toSeq   == ColOr(cols, ti, <<>>)
        cost    == CostOf(ColOr(cols, ci, <<"0">>))
    IN  IF fromSeq # <<>> /\ toSeq # <<>>
        THEN <<[fromSequence |-> fromSeq, toSequence |-> toSeq, transitionCost |-> cost]>>
        ELSE <<>>

\* for (let i = 1; i < lines.length; i++) { ... steps.push(...) }
RECURSIVE StepsFrom(_, _, _, _, _, _)
StepsFrom(lines, i, sep, fi, ti, ci) ==
    IF i > Len(lines) THEN <<>>
    ELSE StepsOfRow(lines[i], sep, fi, ti, ci) \o StepsFrom(lines, i + 1, sep, fi, ti, ci)

NodeOf(seq, idx) == [id |-> seq, sequence |-> seq, index |-> idx]
Seen(nodes) == {nodes[k].id : k \in 1..Len(nodes)}

\* if (steps.length > 0) { first = steps[0]; if (!seen.has(first.fromSequence)) ... }
FirstNodes(steps) ==
    IF Len(steps) > 0 THEN <<NodeOf(steps[1].fromSequence, 0)>> ELSE <<>>

\* the step loop pushing a node for every step, seen or not
RECURSIVE NodesFrom_noSeenCheck(_, _, _)
NodesFrom_noSeenCheck(steps, i, nodes) ==
    IF i > Len(steps) THEN nodes
    ELSE NodesFrom_noSeenCheck(steps, i + 1,
                               Append(nodes, NodeOf(steps[i].toSequence, Len(nodes))))

\* for (const s of steps) { if (!seen.has(s.toSequence)) nodes.push(...) ... }
RECURSIVE NodesFrom(_, _, _)
NodesFrom(steps, i, nodes) ==
    IF i > Len(steps) THEN nodes
    ELSE IF steps[i].toSequence \in Seen(nodes)
         THEN NodesFrom(steps, i + 1, nodes)
         ELSE NodesFrom(steps, i + 1, Append(nodes, NodeOf(steps[i].toSequence, Len(nodes))))

\* links built with the two ends of each step exchanged
LinksOf_swapsEnds(steps) ==
    [i \in 1..Len(steps) |->
        [source |-> steps[i].toSequence, target |-> steps[i].fromSequence,
         cost |-> steps[i].transitionCost]]

\* links.push({ source: s.fromSequence, target: s.toSequence, cost: s.transitionCost })
LinksOf(steps) ==
    [i \in 1..Len(steps) |->
        [source |-> steps[i].fromSequence, target |-> steps[i].toSequence,
         cost |-> steps[i].transitionCost]]

parseResultCsv(text) ==
    LET lines == NonBlankLines(text)
    IN  IF Len(lines) < 2 THEN EmptyGraph
        ELSE LET sep     == SepOf(lines[1])
                 headers == HeadersOf(lines[1])
                 steps   == StepsFrom(lines, 2, sep, fromIdx(headers), toIdx(headers),
                                      costIdx(headers))
             IN  [steps |-> steps,
                  nodes |-> NodesFrom(steps, 1, FirstNodes(steps)),
                  links |-> LinksOf(steps)]

(***************************************************************************)
(* Inputs of parseResultCsv: result files as the backend writes them       *)
(* (header line, one path step per row, comma or tab separated, cells and  *)
(* header names optionally quoted, LF or CRLF line ends), and every short  *)
(* text over a small alphabet.                                             *)
(***************************************************************************)
MaxRows == 2        \* data rows of a generated result file
MaxTextLen == 4     \* length of the exhaustively enumerated short texts

Seps == {COMMA, TAB}
NoHeader == <<>>

\* From_Sequence, To_Sequence, Transition_Cost as R writes them
Capitalize(name) ==
    [i \in 1..Len(name) |->
        IF i = 1 \/ name[i - 1] = "_"
        THEN UpperCase[CHOOSE k \in 1..26 : LowerCase[k] = name[i]]
        ELSE name[i]]

NameStyles == {"lower", "title", "quoted", "padded"}
Styled(name, style) ==
    CASE style = "lower"  -> name
      [] style = "title"  -> Capitalize(name)
      [] style = "quoted" -> <<QUOTE>> \o Capitalize(name) \o <<QUOTE>>
      [] style = "padded" -> <<SPACE>> \o Capitalize(name) \o <<SPACE>>

ColumnNames == <<FROM_SEQUENCE, TO_SEQUENCE, TRANSITION_COST>>
Orders == {p \in [1..3 -> 1..3] : \A i, j \in 1..3 : i # j => p[i] # p[j]}

RECURSIVE JoinWith(_, _)
JoinWith(parts, sep) ==
    IF parts = <<>> THEN <<>>
    ELSE IF Len(parts) = 1 THEN parts[1]
    ELSE parts[1] \o <<sep>> \o JoinWith(Tail(parts), sep)

\* header lines naming the three columns, in every order
NamedHeaders(sep) ==
    {JoinWith([i \in 1..3 |-> Styled(ColumnNames[p[i]], st)], sep) :
        p \in Orders, st \in NameStyles}

\* header lines that name none, or only one, of the three columns
OtherHeaders(sep) ==
    {JoinWith(<<<<"a">>, <<"b">>, <<"c">>>>, sep),
     JoinWith(<<TO_SEQUENCE, <<"a">>, <<"b">>>>, sep)}

HeaderChoices(sep) == NamedHeaders(sep) \cup OtherHeaders(sep) \cup {NoHeader}

\* rows: cells joined by the file's separator
RowChoices(sep) ==
    {JoinWith(<<<<"A","C">>, <<"G","T">>, <<"5">>>>, sep),
     JoinWith(<<<<QUOTE,"A","C",sep,"G","T",QUOTE>>, <<"A","C","G","T">>, <<"5">>>>, sep),
     JoinWith(<<<<"G",COMMA,"T">>, <<"T",COMMA,"T">>, <<"1","2">>>>, sep),
     JoinWith(<<<<>>, <<"G","T">>, <<"1">>>>, sep),
     JoinWith(<<<<"G","T">>, <<SPACE>>, <<"x">>>>, sep),
     JoinWith(<<<<"T","T">>, <<"A","C">>>>, sep)}

LineEnds == {<<LF>>, <<CR, LF>>}

RECURSIVE Concat(_, _)
Concat(lines, eol) ==
    IF lines = <<>> THEN <<>> ELSE lines[1] \o eol \o Concat(Tail(lines), eol)

\* the text of a result file: header line (unless omitted), rows, each line ended by eol
ResultFile(header, rows, eol) ==
    Concat((IF header = NoHeader THEN <<>> ELSE <<header>>) \o rows, eol)

TextAlphabet == {"a", COMMA, LF, QUOTE, SPACE}

(***************************************************************************)
(* MutationNetwork component: values                                       *)
(***************************************************************************)
MaxRuns == 2        \* runs started in one behaviour

\* a message value: a string, or (error.error.detail may be one) an array of strings
Str(t) == [kind |-> "string", text |-> t, items |-> <<>>]
Arr(a) == [kind |-> "array", text |-> "", items |-> a]
Undefined == [kind |-> "undefined", text |-> "", items |-> <<>>]

\* JavaScript truthiness of a message value: arrays are truthy, '' and undefined are not
Truthy(v) == v.kind = "array" \/ (v.kind = "string" /\ v.text # "")

\* a.join(' ')
RECURSIVE JoinSpace(_)
JoinSpace(a) ==
    IF a = <<>> THEN ""
    ELSE IF Len(a) = 1 THEN a[1]
    ELSE a[1] \o " " \o JoinSpace(Tail(a))

TimeoutMessage ==
    "Request timed out. The file may be too large or the server is busy. Try a smaller file or try again."
GenericMessage == "Mutation network failed"
DownloadFailedMessage == "Download failed"

\* what rxjs timeout() throws
TimeoutErrorObject ==
    [isTimeout |-> TRUE, detail |-> Undefined, message |-> Str("Timeout has occurred")]

\* errors of the submit and download calls other than a timeout
HttpFailure == Str("Http failure response")
HttpErrors ==
    {[isTimeout |-> FALSE, detail |-> Str("No path found"), message |-> HttpFailure],
     [isTimeout |-> FALSE, detail |-> Arr(<<"bad", "input">>), message |-> HttpFailure],
     [isTimeout |-> FALSE, detail |-> Undefined, message |-> HttpFailure],
     [isTimeout |-> FALSE, detail |-> Undefined, message |-> Undefined]}

\* errors of onDownload's request, which reads error.error.detail alone
DownloadErrors == {e \in HttpErrors : e.message = HttpFailure}

NoError == [isTimeout |-> FALSE, detail |-> Undefined, message |-> Undefined]

\* { status, result } answers of the submit call
Responses == [status : {"ok", "error"}, result : {"", "out.csv"}]
NoResponse == [status |-> "", result |-> ""]

\* the example result file of the end-to-end scenario, and an empty file
ScenarioText ==
    Concat(<<JoinWith(<<Capitalize(FROM_SEQUENCE), Capitalize(TO_SEQUENCE),
                        Capitalize(TRANSITION_COST)>>, COMMA),
             JoinWith(<<<<"A","A","A","A">>, <<"A","A","A","T">>, <<"1">>>>, COMMA),
             JoinWith(<<<<"A","A","A","T">>, <<"A","A","T","T">>, <<"2">>>>, COMMA)>>,
           <<LF>>)
BlobTexts == {ScenarioText, <<>>}

\* what the user types into a sequence field (the fields start empty)
FieldInputs == {<<SPACE>>, <<"A">>}
UploadResults ==
    [uploadComplete : BOOLEAN, savedFileName : {<<>>, <<"f">>},
     error : {Undefined, Str("Upload failed")}]

\* gate: the handler went on to the call it guards (onStart: the run; a resize
\* notification and the render timer: renderGraph)
Event(op) == [op |-> op, gate |-> FALSE, response |-> NoResponse, error |-> NoError]

(***************************************************************************)
(* MutationNetwork component: handlers                                     *)
(***************************************************************************)
\* canStart without the check of the end sequence
canStart_ignoresEndSequence ==
    /\ uploadComplete
    /\ Trim(savedFileName) # <<>>
    /\ Trim(startSequence) # <<>>
    /\ ~isProcessing

\* canStart without the check of the processing flag
canStart_ignoresProcessing ==
    /\ uploadComplete
    /\ Trim(savedFileName) # <<>>
    /\ Trim(startSequence) # <<>>
    /\ Trim(endSequence) # <<>>

\* get canStart()
canStart ==
    /\ uploadComplete
    /\ Trim(savedFileName) # <<>>
    /\ Trim(startSequence) # <<>>
    /\ Trim(endSequence) # <<>>
    /\ ~isProcessing

\* catchError without the instanceof TimeoutError branch
CatchErrorMessage_noTimeoutBranch(error) ==
    LET msg == IF Truthy(error.detail) THEN error.detail
               ELSE IF Truthy(error.message) THEN error.message
               ELSE Str(GenericMessage)
    IN  IF msg.kind = "array" THEN Str(JoinSpace(msg.items)) ELSE msg

\* the message catchError stores for an error of the pipeline
CatchErrorMessage(error) ==
    IF error.isTimeout THEN Str(TimeoutMessage)
    ELSE LET msg == IF Truthy(error.detail) THEN error.detail
                    ELSE IF Truthy(error.message) THEN error.message
                    ELSE Str(GenericMessage)
         IN  IF msg.kind = "array" THEN Str(JoinSpace(msg.items)) ELSE msg

\* the flag cleared in the success path only, not in a finalize
Finalize_onCompleteOnly(outcome) == outcome = "error"

\* finalize(() => this.isProcessing.set(false)): the flag once the pipeline has
\* ended with outcome "complete" or "error"
Finalize(outcome) == FALSE

\* the message onDownload's error callback stores
DownloadErrorMessage(error) ==
    IF Truthy(error.detail) THEN error.detail ELSE Str(DownloadFailedMessage)

WidgetInit ==
    /\ savedFileName = <<>>
    /\ uploadComplete = FALSE
    /\ startSequence = <<>>
    /\ endSequence = <<>>
    /\ isProcessing = FALSE
    /\ processedFileName = ""
    /\ graphData = Null
    /\ errorMessage = Null
    /\ pipelines = {}
    /\ reads = {}
    /\ downloads = {}
    /\ runCount = 0
    /\ graphRun = 0
    /\ lastEvent = Event("init")

\* (selectedFile is assigned here and read nowhere: it is not part of the state)
onFileSelected ==
    /\ processedFileName' = ""
    /\ graphData' = Null
    /\ graphRun' = 0
    /\ errorMessage' = Null
    /\ lastEvent' = Event("input")
    /\ UNCHANGED <<parserVars, viewVars, renderTimer,
                   savedFileName, uploadComplete, startSequence, endSequence,
                   isProcessing, pipelines, reads, downloads, runCount>>

onUploadComplete(r) ==
    /\ IF r.uploadComplete /\ r.savedFileName # <<>>
       THEN /\ uploadComplete' = TRUE
            /\ savedFileName' = r.savedFileName
            /\ errorMessage' = Null
       ELSE IF Truthy(r.error)
       THEN /\ uploadComplete' = FALSE
            /\ errorMessage' = Some(r.error)
            /\ UNCHANGED savedFileName
       ELSE UNCHANGED <<uploadComplete, savedFileName, errorMessage>>
    /\ lastEvent' = Event("input")
    /\ UNCHANGED <<parserVars, viewVars, renderTimer,
                   startSequence, endSequence, isProcessing, processedFileName,
                   graphData, graphRun, pipelines, reads, downloads, runCount>>

\* the form fields bound to startSequence and endSequence
editStartSequence(s) ==
    /\ startSequence' = s
    /\ lastEvent' = Event("input")
    /\ UNCHANGED <<parserVars, viewVars, renderTimer,
                   savedFileName, uploadComplete, endSequence, isProcessing,
                   processedFileName, graphData, graphRun, errorMessage, pipelines, reads,
                   downloads, runCount>>

editEndSequence(s) ==
    /\ endSequence' = s
    /\ lastEvent' = Event("input")
    /\ UNCHANGED <<parserVars, viewVars, renderTimer,
                   savedFileName, uploadComplete, startSequence, isProcessing,
                   processedFileName, graphData, graphRun, errorMessage, pipelines, reads,
                   downloads, runCount>>

\* the request onStart subscribes to: the submit call, under timeout(120 s)
NewPipeline(run) ==
    [run |-> run, stage |-> "submit", file |-> "",
     params |-> [input_path |-> savedFileName,
                 start_node |-> Trim(startSequence),
                 end_node |-> Trim(endSequence)]]

onStart ==
    /\ lastEvent' = [Event("onStart") EXCEPT !.gate = canStart]
    /\ IF ~canStart
       THEN UNCHANGED <<isProcessing, processedFileName, graphData, graphRun, errorMessage,
                        pipelines, runCount>>
       ELSE /\ runCount < MaxRuns
            /\ isProcessing' = TRUE
            /\ processedFileName' = ""
            /\ graphData' = Null
            /\ graphRun' = 0
            /\ errorMessage' = Null
            /\ runCount' = runCount + 1
            /\ pipelines' = pipelines \cup {NewPipeline(runCount + 1)}
    /\ UNCHANGED <<parserVars, viewVars, renderTimer,
                   savedFileName, uploadComplete, startSequence, endSequence,
                   reads, downloads>>

\* the submit answer starting the download whatever its status
submitNext_ignoresStatus(p, response) ==
    /\ p \in pipelines /\ p.stage = "submit"
    /\ lastEvent' = [Event("submitNext") EXCEPT !.response = response]
    /\ IF response.result # ""
       THEN /\ processedFileName' = response.result
            /\ pipelines' = (pipelines \ {p})
                              \cup {[p EXCEPT !.stage = "download", !.file = response.result]}
            /\ UNCHANGED isProcessing
       ELSE /\ pipelines' = pipelines \ {p}
            /\ isProcessing' = Finalize("complete")
            /\ UNCHANGED processedFileName
    /\ UNCHANGED <<parserVars, viewVars, renderTimer,
                   savedFileName, uploadComplete, startSequence, endSequence,
                   graphData, graphRun, errorMessage, reads, downloads, runCount>>

\* the submit call answers: tap, then switchMap
submitNext(p, response) ==
    /\ p \in pipelines /\ p.stage = "submit"
    /\ lastEvent' = [Event("submitNext") EXCEPT !.response = response]
    /\ IF response.status = "ok" /\ response.result # ""
       THEN /\ processedFileName' = response.result
            /\ pipelines' = (pipelines \ {p})
                              \cup {[p EXCEPT !.stage = "download", !.file = response.result]}
            /\ UNCHANGED isProcessing
       ELSE \* of(null): the pipeline completes
            /\ pipelines' = pipelines \ {p}
            /\ isProcessing' = Finalize("complete")
            /\ UNCHANGED processedFileName
    /\ UNCHANGED <<parserVars, viewVars, renderTimer,
                   savedFileName, uploadComplete, startSequence, endSequence,
                   graphData, graphRun, errorMessage, reads, downloads, runCount>>

\* catchError, then finalize
PipelineFails(p, op, error) ==
    /\ lastEvent' = [Event(op) EXCEPT !.error = error]
    /\ errorMessage' = Some(CatchErrorMessage(error))
    /\ pipelines' = pipelines \ {p}
    /\ isProcessing' = Finalize("error")
    /\ UNCHANGED <<parserVars, viewVars, renderTimer,
                   savedFileName, uploadComplete, startSequence, endSequence,
                   processedFileName, graphData, graphRun, reads, downloads, runCount>>

submitError(p, error) ==
    /\ p \in pipelines /\ p.stage = "submit"
    /\ PipelineFails(p, "submitError", error)

\* timeout(REQUEST_TIMEOUT_MS) fires before the submit call answers
submitTimeout(p) ==
    /\ p \in pipelines /\ p.stage = "submit"
    /\ PipelineFails(p, "submitTimeout", TimeoutErrorObject)

\* the result download answers: tap(handleDownloadedResult), then the pipeline completes
downloadNext(p) ==
    /\ p \in pipelines /\ p.stage = "download"
    /\ lastEvent' = Event("downloadNext")
    /\ reads' = reads \cup {p.run}
    /\ pipelines' = pipelines \ {p}
    /\ isProcessing' = Finalize("complete")
    /\ UNCHANGED <<parserVars, viewVars, renderTimer,
                   savedFileName, uploadComplete, startSequence, endSequence,
                   processedFileName, graphData, graphRun, errorMessage, downloads, runCount>>

downloadError(p, error) ==
    /\ p \in pipelines /\ p.stage = "download"
    /\ PipelineFails(p, "downloadError", error)

\* timeout(30_000) fires before the download answers
downloadTimeout(p) ==
    /\ p \in pipelines /\ p.stage = "download"
    /\ PipelineFails(p, "downloadTimeout", TimeoutErrorObject)

\* the body of reader.onload: parse, graphData.set(data), setTimeout(renderGraph, 50)
Onload(text) ==
    /\ graphData' = Some(parseResultCsv(text))
    /\ renderTimer' = TRUE

\* reader.onload of handleDownloadedResult, for the blob of run `run` holding `text`
readerOnload(run, text) ==
    /\ run \in reads
    /\ lastEvent' = Event("readerOnload")
    /\ Onload(text)
    /\ graphRun' = run
    /\ reads' = reads \ {run}
    /\ UNCHANGED <<parserVars, viewVars,
                   savedFileName, uploadComplete, startSequence, endSequence,
                   isProcessing, processedFileName, errorMessage, pipelines, downloads,
                   runCount>>

\* onDownload asking for the file without looking at the filename
onDownload_withoutFilenameCheck ==
    /\ lastEvent' = Event("onDownload")
    /\ downloads' = downloads \cup {processedFileName}
    /\ UNCHANGED <<parserVars, viewVars, renderTimer,
                   savedFileName, uploadComplete, startSequence, endSequence,
                   isProcessing, processedFileName, graphData, graphRun, errorMessage,
                   pipelines, reads, runCount>>

onDownload ==
    /\ lastEvent' = Event("onDownload")
    /\ downloads' = IF processedFileName = "" THEN downloads
                    ELSE downloads \cup {processedFileName}
    /\ UNCHANGED <<parserVars, viewVars, renderTimer,
                   savedFileName, uploadComplete, startSequence, endSequence,
                   isProcessing, processedFileName, graphData, graphRun, errorMessage,
                   pipelines, reads, runCount>>

\* a request for `file` is answered; `more`: other requests for it are still in flight
Answered(file, more) == IF more THEN downloads ELSE downloads \ {file}

\* next: of onDownload's subscription (the blob is saved by the browser)
downloadSaved(file, more) ==
    /\ file \in downloads
    /\ lastEvent' = Event("downloadSaved")
    /\ downloads' = Answered(file, more)
    /\ UNCHANGED <<parserVars, viewVars, renderTimer,
                   savedFileName, uploadComplete, startSequence, endSequence,
                   isProcessing, processedFileName, graphData, graphRun, errorMessage,
                   pipelines, reads, runCount>>

\* error: of onDownload's subscription
downloadFailed(file, more, error) ==
    /\ file \in downloads
    /\ lastEvent' = Event("downloadFailed")
    /\ downloads' = Answered(file, more)
    /\ errorMessage' = Some(DownloadErrorMessage(error))
    /\ UNCHANGED <<parserVars, viewVars, renderTimer,
                   savedFileName, uploadComplete, startSequence, endSequence,
                   isProcessing, processedFileName, graphData, graphRun, pipelines, reads,
                   runCount>>

(***************************************************************************)
(* MutationNetwork component: the view, renderGraph and the drag handlers  *)
(*                                                                         *)
(* Objects that are shared by reference are named by a ref: the node       *)
(* objects of the caller's GraphData are [owner |-> "caller", at |-> k]    *)
(* (the k-th of graphData().nodes), the objects renderGraph creates are    *)
(* [owner |-> "simulation", at |-> k].  A write to an object of the caller *)
(* is a write to graphData.                                                *)
(***************************************************************************)
MaxGestures == 2    \* drag gestures (pointers) in progress at a time

\* the positions a pointer reports while dragging
PointerPositions == {[x |-> 1, y |-> 3], [x |-> 3, y |-> 1]}

\* where forceSimulation places the node of index k, and where the forces hold it
Place(k) == [x |-> 10 + k, y |-> 10]

\* a one-step result: two nodes and one link
PairText ==
    Concat(<<JoinWith(<<Capitalize(FROM_SEQUENCE), Capitalize(TO_SEQUENCE),
                        Capitalize(TRANSITION_COST)>>, COMMA),
             JoinWith(<<<<"A","C">>, <<"G","T">>, <<"5">>>>, COMMA)>>,
           <<LF>>)
DrawnTexts == {PairText, <<>>}

\* the simulation working on the caller's node objects themselves
CopiedNodes_sameObjects(data) ==
    [k \in 1..Len(data.nodes) |-> [owner |-> "caller", at |-> k]]

\* data.nodes.map((n) => ({ ...n })): a new object for each node
CopiedNodes(data) ==
    [k \in 1..Len(data.nodes) |-> [owner |-> "simulation", at |-> k]]

\* a link end without the fallback to the first node (0: no node)
LinkEnd_withoutFallback(nodes, id) ==
    IF \E k \in 1..Len(nodes) : nodes[k].id = id
    THEN CHOOSE k \in 1..Len(nodes) :
            nodes[k].id = id /\ \A j \in (k + 1)..Len(nodes) : nodes[j].id # id
    ELSE 0

\* nodeById.get(id) ?? nodes[0], as the position of the node in nodes (the Map
\* keeps the last node of an id)
LinkEnd(nodes, id) ==
    IF \E k \in 1..Len(nodes) : nodes[k].id = id
    THEN CHOOSE k \in 1..Len(nodes) :
            nodes[k].id = id /\ \A j \in (k + 1)..Len(nodes) : nodes[j].id # id
    ELSE 1

\* linkObjects
LinkObjects(data) ==
    [i \in 1..Len(data.links) |->
        [source |-> LinkEnd(data.nodes, data.links[i].source),
         target |-> LinkEnd(data.nodes, data.links[i].target),
         cost |-> data.links[i].cost]]

\* nodes, linkObjects and d3.forceSimulation(nodes): every node gets its index and
\* a position, no pin; the simulation runs with alpha target 0 (in tenths).
\* A link end is the position in nodes of the node object it refers to.
NewSimulation(data) ==
    [nodes |-> [k \in 1..Len(data.nodes) |->
                  [ref |-> CopiedNodes(data)[k],
                   id |-> data.nodes[k].id, sequence |-> data.nodes[k].sequence,
                   index |-> k - 1,
                   x |-> Place(k - 1).x, y |-> Place(k - 1).y,
                   fx |-> Null, fy |-> Null]],
     links |-> LinkObjects(data),
     alphaTarget |-> 0,
     running |-> TRUE]

\* the object a node of the simulation is, as the caller sees it
Stored(node) ==
    [id |-> node.id, sequence |-> node.sequence, index |-> node.index,
     x |-> node.x, y |-> node.y, fx |-> node.fx, fy |-> node.fy]

\* graphData after the simulation wrote `nodes`: objects of the caller among them
\* are the nodes of graphData
CallerData(nodes) ==
    IF graphData = Null THEN graphData
    ELSE LET data == graphData[1]
             written(k) == {j \in 1..Len(nodes) : nodes[j].ref = [owner |-> "caller", at |-> k]}
         IN  Some([data EXCEPT !.nodes =
                     [k \in 1..Len(data.nodes) |->
                        IF written(k) = {} THEN data.nodes[k]
                        ELSE Stored(nodes[CHOOSE j \in written(k) : TRUE])]])

\* renderGraph(), size: the container's clientWidth and clientHeight.  The
\* elements of the drawing it replaces are removed, and with them the
\* simulation and the gestures that worked on them.
renderGraph(size) ==
    IF ~containerInDom
    THEN UNCHANGED <<sim, gestures, graphData>>
    ELSE IF (IF graphData = Null THEN TRUE ELSE Len(graphData[1].nodes) = 0)
            \/ size = "zero"
         THEN /\ sim' = Null
              /\ gestures' = <<>>
              /\ UNCHANGED graphData
         ELSE /\ sim' = Some(NewSimulation(graphData[1]))
              /\ gestures' = [k \in 1..Len(graphData[1].nodes) |-> 0]
              /\ graphData' = CallerData(NewSimulation(graphData[1]).nodes)

\* a step that does not call renderGraph
NotRendered == UNCHANGED <<sim, gestures, graphData>>

\* a resize notification, size: the container's size.  listening: the listener
\* it is for is attached, and then runs if (this.graphData()) this.renderGraph();
Notified(op, listening, size) ==
    LET calls == listening /\ graphData # Null
    IN  /\ lastEvent' = [Event(op) EXCEPT !.gate = calls]
        /\ IF calls THEN renderGraph(size) ELSE NotRendered

\* the widget's variables the view never writes
WidgetRest == <<savedFileName, uploadComplete, startSequence, endSequence, isProcessing,
                processedFileName, errorMessage, pipelines, reads, downloads, runCount,
                graphRun>>

\* the template: #graphContainer is in the view of a live component, always or
\* while graphData is set
ContainerInView(alive) == alive /\ (~containerConditional \/ graphData # Null)

\* const el = this.graphContainer?.nativeElement; if (!el) return; ...
setupResizeObserver(el) ==
    /\ observing' = (el /\ hasResizeObserver)
    /\ windowListener' = (el /\ ~hasResizeObserver)

\* ngOnDestroy leaving the listeners attached
ngOnDestroy_keepsListeners ==
    /\ lifecycle = "viewInit"
    /\ lifecycle' = "destroyed"
    /\ lastEvent' = Event("view")
    /\ sim' = Null
    /\ gestures' = <<>>
    /\ UNCHANGED <<parserVars, WidgetRest, renderTimer, graphData, containerConditional,
                   hasResizeObserver, containerInDom, clientSize, observing, windowListener>>

\* the view is created, then ngAfterViewInit runs
ngAfterViewInit ==
    /\ lifecycle = "constructed"
    /\ lifecycle' = "viewInit"
    /\ lastEvent' = Event("view")
    /\ containerInDom' = ContainerInView(TRUE)
    /\ setupResizeObserver(ContainerInView(TRUE))
    /\ NotRendered
    /\ UNCHANGED <<parserVars, WidgetRest, renderTimer, containerConditional,
                   hasResizeObserver, clientSize>>

\* ngOnDestroy, and the removal of the component's elements that follows it (the
\* graphContainer reference keeps the element)
ngOnDestroy ==
    /\ lifecycle = "viewInit"
    /\ lifecycle' = "destroyed"
    /\ lastEvent' = Event("view")
    /\ observing' = FALSE
    /\ windowListener' = FALSE
    /\ sim' = Null
    /\ gestures' = <<>>
    /\ UNCHANGED <<parserVars, WidgetRest, renderTimer, graphData, containerConditional,
                   hasResizeObserver, containerInDom, clientSize>>

\* change detection brings the view up to date with graphData
viewUpdate ==
    /\ lifecycle = "viewInit"
    /\ containerInDom # ContainerInView(TRUE)
    /\ containerInDom' = ContainerInView(TRUE)
    /\ lastEvent' = Event("view")
    /\ sim' = Null
    /\ gestures' = <<>>
    /\ UNCHANGED <<parserVars, WidgetRest, renderTimer, graphData, containerConditional,
                   hasResizeObserver, lifecycle, clientSize, observing, windowListener>>

\* reader.onload of a result download holding `text`
graphLoaded(text) ==
    /\ lifecycle # "constructed"
    /\ lastEvent' = Event("view")
    /\ Onload(text)
    /\ UNCHANGED <<parserVars, WidgetRest, containerConditional, hasResizeObserver, lifecycle,
                   containerInDom, clientSize, observing, windowListener, sim, gestures>>

\* this.graphData.set(null) of onFileSelected and onStart
graphCleared ==
    /\ lifecycle = "viewInit"
    /\ graphData # Null
    /\ lastEvent' = Event("view")
    /\ graphData' = Null
    /\ UNCHANGED <<parserVars, WidgetRest, renderTimer, containerConditional,
                   hasResizeObserver, lifecycle, containerInDom, clientSize, observing,
                   windowListener, sim, gestures>>

\* a timer of reader.onload fires; `more`: another one is still pending
renderTimerFires(more) ==
    /\ renderTimer
    /\ renderTimer' = more
    /\ lastEvent' = [Event("renderTimer") EXCEPT !.gate = TRUE]
    /\ renderGraph(clientSize)
    /\ UNCHANGED <<parserVars, WidgetRest, containerConditional, hasResizeObserver, lifecycle,
                   containerInDom, clientSize, observing, windowListener>>

\* the container's box changes to `size`; the observer, if it observes the
\* container, calls back
containerResized(size) ==
    /\ containerInDom
    /\ clientSize' = size
    /\ Notified("containerResized", observing, size)
    /\ UNCHANGED <<parserVars, WidgetRest, renderTimer, containerConditional,
                   hasResizeObserver, lifecycle, containerInDom, observing, windowListener>>

\* the window is resized; _onWindowResize runs if it is registered
windowResized ==
    /\ lifecycle # "constructed"
    /\ Notified("windowResized", windowListener, clientSize)
    /\ UNCHANGED <<parserVars, WidgetRest, renderTimer, containerConditional,
                   hasResizeObserver, lifecycle, containerInDom, clientSize, observing,
                   windowListener>>

\* the drag-end handler leaving the pin where it is
onDragEnd_keepsPin(s, k, active) ==
    [s EXCEPT !.alphaTarget = IF active = 0 THEN 0 ELSE @]

\* .on('start', ...): event.subject is node k, event.active the other gestures in progress
onDragStart(s, k, active) ==
    [s EXCEPT !.alphaTarget = IF active = 0 THEN 3 ELSE @,
              !.running = IF active = 0 THEN TRUE ELSE @,
              !.nodes[k].fx = Some(s.nodes[k].x),
              !.nodes[k].fy = Some(s.nodes[k].y)]

\* .on('drag', ...): event.x, event.y are the pointer's position
onDrag(s, k, pointer) ==
    [s EXCEPT !.nodes[k].fx = Some(pointer.x), !.nodes[k].fy = Some(pointer.y)]

\* .on('end', ...)
onDragEnd(s, k, active) ==
    [s EXCEPT !.alphaTarget = IF active = 0 THEN 0 ELSE @,
              !.nodes[k].fx = Null,
              !.nodes[k].fy = Null]

\* one step of the simulation: a pinned node is put on its pin, the forces
\* bring a free node to its place
Ticked(s) ==
    [s EXCEPT !.nodes =
        [k \in 1..Len(s.nodes) |->
            [s.nodes[k] EXCEPT !.x = IF s.nodes[k].fx # Null THEN s.nodes[k].fx[1]
                                     ELSE Place(k - 1).x,
                               !.y = IF s.nodes[k].fy # Null THEN s.nodes[k].fy[1]
                                     ELSE Place(k - 1).y]]]

\* the simulation of the drawing becomes s
Simulate(s) ==
    /\ sim' = Some(s)
    /\ graphData' = CallerData(s.nodes)
    /\ UNCHANGED <<parserVars, WidgetRest, renderTimer, containerConditional,
                   hasResizeObserver, lifecycle, containerInDom, clientSize, observing,
                   windowListener>>

\* the number of gestures in progress
RECURSIVE Sum(_)
Sum(counts) == IF counts = <<>> THEN 0 ELSE Head(counts) + Sum(Tail(counts))

\* a pointer goes down on the circle of node k
dragStart(k) ==
    /\ lifecycle = "viewInit"
    /\ sim # Null
    /\ k \in 1..Len(sim[1].nodes)
    /\ Sum(gestures) < MaxGestures
    /\ lastEvent' = Event("dragStart")
    /\ gestures' = [gestures EXCEPT ![k] = @ + 1]
    /\ Simulate(onDragStart(sim[1], k, Sum(gestures)))

\* the pointer of a gesture on node k moves
dragMove(k, position) ==
    /\ k \in 1..Len(gestures)
    /\ gestures[k] > 0
    /\ lastEvent' = Event("dragMove")
    /\ UNCHANGED gestures
    /\ Simulate(onDrag(sim[1], k, position))

\* the pointer of a gesture on node k goes up
dragEnd(k) ==
    /\ k \in 1..Len(gestures)
    /\ gestures[k] > 0
    /\ lastEvent' = Event("dragEnd")
    /\ gestures' = [gestures EXCEPT ![k] = @ - 1]
    /\ Simulate(onDragEnd(sim[1], k, Sum(gestures) - 1))

\* the simulation's timer: simulation.on('tick', ...)
tick ==
    /\ sim # Null
    /\ sim[1].running
    /\ lastEvent' = Event("view")
    /\ UNCHANGED gestures
    /\ Simulate(Ticked(sim[1]))

\* alpha falls below alphaMin, which it does only with alpha target 0: the
\* simulation's timer stops
simulationCools ==
    /\ sim # Null
    /\ sim[1].running
    /\ sim[1].alphaTarget = 0
    /\ lastEvent' = Event("view")
    /\ UNCHANGED gestures
    /\ Simulate([sim[1] EXCEPT !.running = FALSE])

ParserIdle ==
    /\ content = <<>>
    /\ headerOmitted = FALSE
    /\ result = Null

\* before the view is created; the template and the runtime as documented
ViewIdle ==
    /\ renderTimer = FALSE
    /\ lifecycle = "constructed"
    /\ containerInDom = FALSE
    /\ clientSize = "positive"
    /\ observing = FALSE
    /\ windowListener = FALSE
    /\ sim = Null
    /\ gestures = <<>>

DocumentedView ==
    /\ containerConditional = TRUE
    /\ hasResizeObserver = TRUE

Init == WidgetInit /\ ParserIdle /\ ViewIdle /\ DocumentedView

Next ==
    \/ onFileSelected
    \/ \E r \in UploadResults : onUploadComplete(r)
    \/ \E s \in FieldInputs : editStartSequence(s)
    \/ \E s \in FieldInputs : editEndSequence(s)
    \/ onStart
    \/ \E p \in pipelines, response \in Responses : submitNext(p, response)
    \/ \E p \in pipelines, error \in HttpErrors : submitError(p, error)
    \/ \E p \in pipelines : submitTimeout(p)
    \/ \E p \in pipelines : downloadNext(p)
    \/ \E p \in pipelines, error \in HttpErrors : downloadError(p, error)
    \/ \E p \in pipelines : downloadTimeout(p)
    \/ \E run \in reads, text \in BlobTexts : readerOnload(run, text)
    \/ onDownload
    \/ \E file \in downloads, more \in BOOLEAN : downloadSaved(file, more)
    \/ \E file \in downloads, more \in BOOLEAN, error \in DownloadErrors :
        downloadFailed(file, more, error)

\* the network answers a call of a run's pipeline, or the call's timeout fires
PipelineStep ==
    \E p \in pipelines :
        \/ \E response \in Responses : submitNext(p, response)
        \/ \E error \in HttpErrors : submitError(p, error)
        \/ submitTimeout(p)
        \/ downloadNext(p)
        \/ \E error \in HttpErrors : downloadError(p, error)
        \/ downloadTimeout(p)

\* (the render timers reader.onload sets fire in StageSpec and RenderSpec: in
\* this specification the view is never created and renderGraph has nothing to
\* draw into)
Spec == Init /\ [][Next]_vars

\* every call of a pipeline is answered, fails, or times out
FairSpec == Spec /\ WF_vars(PipelineStep)

(***************************************************************************)
(* The stages of the runs, with the render timers reader.onload sets: the  *)
(* same handlers, with one uploaded file and one sequence as inputs        *)
(***************************************************************************)
StageUpload == [uploadComplete |-> TRUE, savedFileName |-> <<"f">>, error |-> Undefined]
StageSequence == <<"A">>

StageNext ==
    \/ onFileSelected
    \/ onUploadComplete(StageUpload)
    \/ editStartSequence(StageSequence)
    \/ editEndSequence(StageSequence)
    \/ onStart
    \/ \E p \in pipelines, response \in Responses : submitNext(p, response)
    \/ \E p \in pipelines, error \in HttpErrors : submitError(p, error)
    \/ \E p \in pipelines : submitTimeout(p)
    \/ \E p \in pipelines : downloadNext(p)
    \/ \E p \in pipelines, error \in HttpErrors : downloadError(p, error)
    \/ \E p \in pipelines : downloadTimeout(p)
    \/ \E run \in reads, text \in BlobTexts : readerOnload(run, text)
    \/ \E more \in BOOLEAN : renderTimerFires(more)

StageSpec == Init /\ [][StageNext]_vars

(***************************************************************************)
(* The view: the component from its construction to its destruction, with  *)
(* the graphs reader.onload stores and the user's resizing and dragging    *)
(***************************************************************************)
RenderInit ==
    /\ WidgetInit /\ ParserIdle /\ ViewIdle
    /\ containerConditional \in BOOLEAN
    /\ hasResizeObserver \in BOOLEAN

RenderNext ==
    \/ ngAfterViewInit
    \/ ngOnDestroy
    \/ viewUpdate
    \/ \E text \in DrawnTexts : graphLoaded(text)
    \/ graphCleared
    \/ \E more \in BOOLEAN : renderTimerFires(more)
    \/ \E size \in {"positive", "zero"} : containerResized(size)
    \/ windowResized
    \/ \E k \in 1..Len(gestures) : dragStart(k)
    \/ \E k \in 1..Len(gestures), position \in PointerPositions : dragMove(k, position)
    \/ \E k \in 1..Len(gestures) : dragEnd(k)
    \/ tick
    \/ simulationCools

RenderSpec == RenderInit /\ [][RenderNext]_vars

(***************************************************************************)
(* Parser harness: parseResultCsv applied to each input, and the links of  *)
(* renderGraph resolved in the graph it returns                            *)
(***************************************************************************)
\* the input is a result file of the backend
ResultFileInput ==
    \E sep \in Seps, eol \in LineEnds, k \in 0..MaxRows :
        \E header \in HeaderChoices(sep), rows \in [1..k -> RowChoices(sep)] :
            /\ content = ResultFile(header, rows, eol)
            /\ headerOmitted = (header = NoHeader)

\* the input is any short text
ShortTextInput ==
    \E k \in 0..MaxTextLen :
        \E text \in [1..k -> TextAlphabet] :
            /\ content = text
            /\ headerOmitted = FALSE

ParseInit ==
    /\ WidgetInit /\ ViewIdle /\ DocumentedView
    /\ result = Null
    /\ ResultFileInput \/ ShortTextInput

Parse ==
    /\ result = Null
    /\ result' = Some(parseResultCsv(content))
    /\ UNCHANGED <<content, headerOmitted, widgetVars, renderTimer, viewVars>>

\* renderGraph's nodes, linkObjects and simulation, built from the returned graph
Resolve ==
    /\ result # Null
    /\ sim = Null
    /\ Len(result[1].nodes) > 0
    /\ sim' = Some(NewSimulation(result[1]))
    /\ UNCHANGED <<parserVars, widgetVars, renderTimer, containerConditional,
                   hasResizeObserver, lifecycle, containerInDom, clientSize, observing,
                   windowListener, gestures>>

ParseNext == Parse \/ Resolve

ParseSpec == ParseInit /\ [][ParseNext]_vars

(***************************************************************************)
(* Properties of the request orchestration                                 *)
(***************************************************************************)
FieldsFilled ==
    /\ uploadComplete
    /\ Trim(savedFileName) # <<>>
    /\ Trim(startSequence) # <<>>
    /\ Trim(endSequence) # <<>>

\* the gate of onStart as the specification states it
GateFails ==
    \/ ~uploadComplete
    \/ savedFileName = <<>>
    \/ Trim(startSequence) = <<>>
    \/ Trim(endSequence) = <<>>
    \/ isProcessing

\* C1: in every reachable state at most one submission pipeline (submit call or
\* its result download) is in flight, and one is in flight only while the
\* processing flag is set, so that onStart is blocked until it has finished.
OneRunInFlight ==
    /\ Cardinality(pipelines) <= 1
    /\ pipelines # {} => isProcessing

\* onStart was invoked with every field filled while a run was in flight, and was blocked
StartBlockedByRun ==
    /\ lastEvent.op = "onStart" /\ ~lastEvent.gate
    /\ FieldsFilled
    /\ Cardinality(pipelines) = 1

\* C2: every run that sets the processing flag eventually clears it, whatever
\* the outcome of its calls, and once it is cleared a widget whose fields are
\* still filled can start again.
ProcessingAlwaysCleared ==
    /\ isProcessing ~> ~isProcessing
    /\ []((~isProcessing /\ FieldsFilled) => canStart)

\* a second run has ended with a timeout of its download and the flag is clear
SecondRunEndedByTimeout ==
    /\ runCount >= 2
    /\ lastEvent.op = "downloadTimeout"
    /\ ~isProcessing
    /\ pipelines = {}

\* C3: an onStart invoked while the gate fails issues no call, surfaces no error
\* and leaves the processing flag, the result filename, the graph data and the
\* error message unchanged.
BlockedStartChangesNothing ==
    [][(GateFails /\ lastEvent'.op = "onStart")
         => UNCHANGED <<isProcessing, processedFileName, graphData, errorMessage,
                        pipelines, reads, downloads>>]_vars

\* onStart was invoked on an idle widget whose start sequence is white space only
StartBlockedByBlankField ==
    /\ lastEvent.op = "onStart" /\ ~lastEvent.gate
    /\ ~isProcessing /\ uploadComplete
    /\ startSequence # <<>> /\ Trim(startSequence) = <<>>

\* C4: a run ended by a timeout of the submit call or of the result download
\* shows the timeout message; a run ended by another error shows the server's
\* detail (an array joined with spaces), else the error's message, else the
\* generic text.
FailureMessageShown ==
    /\ lastEvent.op \in {"submitTimeout", "downloadTimeout"}
         => errorMessage = Some(Str(TimeoutMessage))
    /\ lastEvent.op \in {"submitError", "downloadError"}
         => LET e == lastEvent.error
            IN  errorMessage =
                  Some(IF e.detail.kind = "array" THEN Str(JoinSpace(e.detail.items))
                       ELSE IF e.detail.kind = "string" THEN e.detail
                       ELSE IF e.message.kind = "string" THEN e.message
                       ELSE Str(GenericMessage))

\* the result download of a run timed out
DownloadTimedOut ==
    /\ lastEvent.op = "downloadTimeout"
    /\ errorMessage = Some(Str(TimeoutMessage))
    /\ processedFileName # ""

\* C5: when the submit call answers with a status other than "ok", or without a
\* result filename, the run ends with an error message shown.
NotOkAnswerShowsError ==
    (/\ lastEvent.op = "submitNext"
     /\ (lastEvent.response.status # "ok" \/ lastEvent.response.result = ""))
        => errorMessage # Null

\* C6: a graph on display is the parse of the result of the most recently
\* started run: once a new run has started, no earlier run sets graphData again.
GraphIsOfLatestRun == graphData # Null => graphRun = runCount

(***************************************************************************)
(* Properties of parseResultCsv                                            *)
(***************************************************************************)
\* The fields of a row, stated without the scan: a separator splits the row
\* where an even number of quotes precedes it; a field is the text between two
\* such separators, its quotes removed, trimmed.
QuotesBefore(line, i) == Cardinality({k \in 1..(i - 1) : line[k] = QUOTE})
SplitPoints(line, sep) ==
    {i \in 1..Len(line) : line[i] = sep /\ QuotesBefore(line, i) % 2 = 0}
NthSmallest(S, n) == CHOOSE p \in S : Cardinality({q \in S : q < p}) = n - 1

\* field k (0-based) of the row, empty when the row has no such field
Field(line, sep, k) ==
    LET pts == SplitPoints(line, sep)
        n   == Cardinality(pts)
        lo  == IF k = 0 THEN 0 ELSE NthSmallest(pts, k)
        hi  == IF k = n THEN Len(line) + 1 ELSE NthSmallest(pts, k + 1)
    IN  IF k > n THEN <<>>
        ELSE Trim(SelectSeq(SubSeq(line, lo + 1, hi - 1), LAMBDA c : c # QUOTE))

\* the step a row stands for when its fields are read from columns fi, ti, ci
StepRead(line, sep, fi, ti, ci) ==
    [fromSequence |-> Field(line, sep, fi),
     toSequence |-> Field(line, sep, ti),
     transitionCost |-> CostOf(Field(line, sep, ci))]

\* the rows whose from and to fields are both filled
KeptRows(rows, sep, fi, ti) ==
    {i \in 1..Len(rows) : Field(rows[i], sep, fi) # <<>> /\ Field(rows[i], sep, ti) # <<>>}

\* the steps of the kept rows, in row order
StepsRead(rows, sep, fi, ti, ci) ==
    LET kept == KeptRows(rows, sep, fi, ti)
    IN  [k \in 1..Cardinality(kept) |-> StepRead(rows[NthSmallest(kept, k)], sep, fi, ti, ci)]

SepStated(lines) == IF Includes(lines[1], TAB) THEN TAB ELSE COMMA

\* C7: a header line and N non-blank data rows give N - D steps, D the number of
\* rows whose from or to field is empty after trimming, in the order of their
\* rows; fewer than 2 non-blank lines give no steps, no nodes and no links.
StepCountAndOrder ==
    result # Null =>
        LET lines == NonBlankLines(content)
        IN  IF Len(lines) < 2
            THEN result[1] = [steps |-> <<>>, nodes |-> <<>>, links |-> <<>>]
            ELSE LET h     == HeadersOf(lines[1])
                     sep   == SepStated(lines)
                     rows  == Tail(lines)
                     fi    == fromIdx(h)
                     ti    == toIdx(h)
                     N     == Len(rows)
                     empty == {i \in 1..N : \/ Field(rows[i], sep, fi) = <<>>
                                            \/ Field(rows[i], sep, ti) = <<>>}
                     kept  == (1..N) \ empty
                     steps == result[1].steps
                 IN  /\ Len(steps) = N - Cardinality(empty)
                     /\ \A k \in 1..Len(steps) :
                          LET row == rows[NthSmallest(kept, k)]
                          IN  /\ steps[k].fromSequence = Field(row, sep, fi)
                              /\ steps[k].toSequence = Field(row, sep, ti)

\* a parsed text of a header and two data rows of which one was dropped
OneRowOfTwoDropped ==
    /\ result # Null
    /\ ~headerOmitted
    /\ Len(NonBlankLines(content)) = 3
    /\ Len(result[1].steps) = 1

\* The header names read tolerantly: white space around the token removed, then
\* the wrapping quotes, then letter case.
TolerantName(token) == ToLowerCase(StripQuotes(Trim(token)))
NamePositions(lines, name) ==
    LET tokens == Split(lines[1], SepStated(lines))
    IN  {i \in 1..Len(tokens) : TolerantName(tokens[i]) = name}

\* C8: when the header line carries the three names, in any order and letter
\* case, each optionally quoted and surrounded by white space (a trailing CR
\* included), every step's fields are read from the columns so named.
HeaderResolvedByName ==
    result # Null =>
        LET lines == NonBlankLines(content)
            pf    == NamePositions(lines, FROM_SEQUENCE)
            pt    == NamePositions(lines, TO_SEQUENCE)
            pc    == NamePositions(lines, TRANSITION_COST)
            at(S) == (CHOOSE i \in S : TRUE) - 1
        IN  (/\ Len(lines) >= 2
             /\ Cardinality(pf) = 1 /\ Cardinality(pt) = 1 /\ Cardinality(pc) = 1)
                => result[1].steps =
                     StepsRead(Tail(lines), SepStated(lines), at(pf), at(pt), at(pc))

\* the first non-blank line names none of the three columns
NoNameRecognized(lines) ==
    LET h == HeadersOf(lines[1])
    IN  \A i \in 1..Len(h) : h[i] \notin {FROM_SEQUENCE, TO_SEQUENCE, TRANSITION_COST}

\* C9: when the first non-blank line names none of the columns, from, to and
\* cost are read from columns 0, 1 and 2, and every path step the backend
\* reported is among the returned steps, also when it wrote no header line.
HeaderlessOutputParsed ==
    result # Null =>
        LET lines    == NonBlankLines(content)
            \* the lines in which the backend reported a path step
            reported == IF headerOmitted THEN lines ELSE Tail(lines)
        IN  (Len(lines) >= 1 /\ NoNameRecognized(lines))
                => LET sep == SepStated(lines)
                   IN  \A i \in KeptRows(reported, sep, 0, 1) :
                         \E k \in 1..Len(result[1].steps) :
                            result[1].steps[k] = StepRead(reported[i], sep, 0, 1, 2)

\* C10: the separator is tab when the header line holds a tab, comma otherwise;
\* quotes toggle the in-quotes state and are not emitted; the separator ends a
\* field only outside quotes: every returned step holds the fields so delimited.
QuotedFieldsNotSplit ==
    result # Null =>
        LET lines == NonBlankLines(content)
        IN  Len(lines) >= 2
                => LET h == HeadersOf(lines[1])
                   IN  result[1].steps =
                         StepsRead(Tail(lines), SepStated(lines),
                                   fromIdx(h), toIdx(h), costIdx(h))

\* the row "AC,GT",ACGT,5 of a comma-separated file was parsed
QuotedCommaRowParsed ==
    /\ result # Null
    /\ LET lines == NonBlankLines(content)
       IN  /\ Len(lines) >= 2
           /\ ~Includes(lines[1], TAB)
           /\ \E i \in 2..Len(lines) :
                lines[i] = <<QUOTE,"A","C",COMMA,"G","T",QUOTE,COMMA,"A","C","G","T",COMMA,"5">>
    /\ \E k \in 1..Len(result[1].steps) :
         result[1].steps[k] =
           [fromSequence |-> <<"A","C",COMMA,"G","T">>,
            toSequence |-> <<"A","C","G","T">>,
            transitionCost |-> 5]

(***************************************************************************)
(* The graph built from the steps                                          *)
(***************************************************************************)
\* the sequences in the order the builder meets them: the first step's from,
\* then every step's to
Met(steps) ==
    IF Len(steps) = 0 THEN <<>>
    ELSE <<steps[1].fromSequence>> \o [i \in 1..Len(steps) |-> steps[i].toSequence]

\* the positions of Met at which a sequence is met for the first time
FirstMeetings(met) == {i \in 1..Len(met) : \A j \in 1..(i - 1) : met[j] # met[i]}

\* C11: the links correspond one to one, in order, to the steps (source the
\* step's from, target its to, cost its cost, parallel edges kept); the number
\* of nodes is the number of distinct values among the first step's from and
\* all steps' to; no steps give no nodes and no links.
LinksMirrorSteps ==
    result # Null =>
        LET steps == result[1].steps
            links == result[1].links
            nodes == result[1].nodes
        IN  /\ Len(links) = Len(steps)
            /\ \A i \in 1..Len(steps) :
                 /\ links[i].source = steps[i].fromSequence
                 /\ links[i].target = steps[i].toSequence
                 /\ links[i].cost = steps[i].transitionCost
            /\ Len(nodes) = Cardinality({Met(steps)[i] : i \in 1..Len(Met(steps))})
            /\ Len(steps) = 0 => (nodes = <<>> /\ links = <<>>)

\* a parsed file whose two rows are the same step: two parallel links, two nodes
ParallelEdgesKept ==
    /\ result # Null
    /\ Len(result[1].steps) = 2
    /\ result[1].steps[1] = result[1].steps[2]
    /\ result[1].steps[1].fromSequence # result[1].steps[1].toSequence
    /\ Len(result[1].links) = 2
    /\ Len(result[1].nodes) = 2

\* C12: node ids are pairwise distinct, a node's id equals its sequence, the
\* node at position i has index i, and nodes stand in first-discovery order:
\* the first step's from, then each not yet seen to in step order.
NodesInDiscoveryOrder ==
    result # Null =>
        LET nodes == result[1].nodes
            met   == Met(result[1].steps)
            first == FirstMeetings(met)
        IN  /\ \A i, j \in 1..Len(nodes) : nodes[i].id = nodes[j].id => i = j
            /\ \A i \in 1..Len(nodes) :
                 /\ nodes[i].id = nodes[i].sequence
                 /\ nodes[i].index = i - 1
            /\ Len(nodes) = Cardinality(first)
            /\ \A i \in 1..Len(nodes) : nodes[i].id = met[NthSmallest(first, i)]

\* a parsed file whose second step leads to a sequence already seen
SeenSequenceNotRepeated ==
    /\ result # Null
    /\ Len(result[1].steps) = 2
    /\ result[1].steps[2].toSequence = result[1].steps[1].fromSequence
    /\ result[1].steps[1].toSequence # result[1].steps[1].fromSequence
    /\ Len(result[1].nodes) = 2

(***************************************************************************)
(* The secondary download                                                  *)
(***************************************************************************)
\* C13: onDownload and the callbacks of its request never change graphData, the
\* result filename or the processing flag, whenever they run; a request is
\* issued only when a result filename is known and asks for that file; a
\* failing request changes only the error message.
DownloadLeavesRunAlone ==
    [][lastEvent'.op \in {"onDownload", "downloadSaved", "downloadFailed"} =>
          /\ graphData' = graphData
          /\ processedFileName' = processedFileName
          /\ isProcessing' = isProcessing
          /\ lastEvent'.op = "onDownload" =>
                /\ errorMessage' = errorMessage
                /\ downloads' \subseteq downloads \cup {processedFileName}
                /\ downloads' # downloads => processedFileName # ""
          /\ lastEvent'.op = "downloadSaved" => errorMessage' = errorMessage
          /\ UNCHANGED <<savedFileName, uploadComplete, startSequence, endSequence,
                         pipelines, reads, runCount, graphRun>>]_vars

\* a request of onDownload failed while a run was processing and a graph was shown
DownloadFailedDuringRun ==
    /\ lastEvent.op = "downloadFailed"
    /\ isProcessing
    /\ graphData # Null
    /\ errorMessage # Null

(***************************************************************************)
(* The resolved columns                                                    *)
(***************************************************************************)
\* C20: for every header line the three column positions resolved for from, to
\* and cost are pairwise distinct, also when only some of the names are present
\* and the absent ones fall back to positions 0, 1 and 2.
ColumnsPairwiseDistinct ==
    result # Null =>
        LET lines == NonBlankLines(content)
        IN  Len(lines) >= 2 =>
              LET h == HeadersOf(lines[1])
              IN  /\ fromIdx(h) # toIdx(h)
                  /\ fromIdx(h) # costIdx(h)
                  /\ toIdx(h) # costIdx(h)

(***************************************************************************)
(* The stages of a run                                                     *)
(***************************************************************************)
FailureOps == {"submitError", "submitTimeout", "downloadError", "downloadTimeout"}

\* C18: the stages of a run happen in the order submit, download, parse, render:
\* a download starts only when the submit call of its run answered "ok" with a
\* non-empty filename, asks for that file, and the filename is recorded by
\* then; a file is read only when its download succeeded; graphData is set
\* only by the parse of a read file; a render is scheduled only in the step
\* that set graphData; a failing or timed out call sets no graphData, starts
\* no read and ends its run.
StagesInOrder ==
    [][/\ \A p \in pipelines' \ pipelines :
            \/ p.stage = "submit" /\ lastEvent'.op = "onStart"
            \/ /\ p.stage = "download"
               /\ lastEvent'.op = "submitNext"
               /\ lastEvent'.response.status = "ok"
               /\ lastEvent'.response.result # ""
               /\ p.file = lastEvent'.response.result
               /\ processedFileName' = p.file
               /\ \E q \in pipelines \ pipelines' : q.run = p.run /\ q.stage = "submit"
       /\ reads' \ reads # {} =>
            /\ lastEvent'.op = "downloadNext"
            /\ \E p \in pipelines \ pipelines' :
                 p.stage = "download" /\ reads' = reads \cup {p.run}
       /\ (graphData' # graphData /\ graphData' # Null) =>
            /\ lastEvent'.op = "readerOnload"
            /\ graphRun' \in reads
       /\ (renderTimer' /\ ~renderTimer) =>
            /\ lastEvent'.op = "readerOnload"
            /\ graphData' # Null
       /\ lastEvent'.op \in FailureOps =>
            /\ UNCHANGED <<graphData, graphRun, reads, renderTimer>>
            /\ \E p \in pipelines :
                 /\ pipelines' = pipelines \ {p}
                 /\ p.run \notin reads
      ]_vars

\* the render timer of the first run's graph fired, after that run's submit,
\* download and parse
RunRendered ==
    /\ lastEvent.op = "renderTimer"
    /\ graphData # Null
    /\ graphRun = 1
    /\ processedFileName = "out.csv"

(***************************************************************************)
(* The ends of the links                                                   *)
(***************************************************************************)
\* each step starts where the step before it ended
Contiguous(steps) ==
    \A i \in 2..Len(steps) : steps[i].fromSequence = steps[i - 1].toSequence

\* C19: in every returned graph each link's target is the id of a node, and so
\* is each link's source when the steps form one contiguous walk; a source that
\* names no node is drawn by renderGraph from the first node, every other end
\* from the node it names, and every link is drawn.
LinkEndsAreNodes ==
    result # Null =>
        LET graph == result[1]
            ids   == {graph.nodes[k].id : k \in 1..Len(graph.nodes)}
        IN  /\ \A i \in 1..Len(graph.links) : graph.links[i].target \in ids
            /\ Contiguous(graph.steps) =>
                 \A i \in 1..Len(graph.links) : graph.links[i].source \in ids
            /\ sim # Null =>
                 /\ Len(sim[1].links) = Len(graph.links)
                 /\ \A i \in 1..Len(graph.links) :
                      LET drawn == sim[1].links[i]
                      IN  /\ drawn.target \in 1..Len(sim[1].nodes)
                          /\ sim[1].nodes[drawn.target].id = graph.links[i].target
                          /\ IF graph.links[i].source \in ids
                             THEN /\ drawn.source \in 1..Len(sim[1].nodes)
                                  /\ sim[1].nodes[drawn.source].id = graph.links[i].source
                             ELSE drawn.source = 1

\* the links of a graph whose second step starts at a sequence that is no node
\* were resolved
UnknownSourceDrawnFromFirstNode ==
    /\ result # Null
    /\ sim # Null
    /\ Len(result[1].steps) = 2
    /\ ~Contiguous(result[1].steps)
    /\ \A k \in 1..Len(result[1].nodes) : result[1].nodes[k].id # result[1].links[2].source
    /\ sim[1].links[2].source = 1

(***************************************************************************)
(* The drawing                                                             *)
(***************************************************************************)
DrawingOps == {"renderTimer", "containerResized", "windowResized",
               "dragStart", "dragMove", "dragEnd"}

\* C14: renders, ticks of the simulation and drag events leave graphData as it
\* is, and its nodes hold id, sequence and index and no position or pin:
\* positions and pins are written to the simulation's own objects.
CallerDataUntouched ==
    [][/\ (sim' # sim \/ lastEvent'.op \in DrawingOps) => graphData' = graphData
       /\ graphData' # Null =>
            \A k \in 1..Len(graphData'[1].nodes) :
                DOMAIN graphData'[1].nodes[k] = {"id", "sequence", "index"}
      ]_vars

\* the simulation put a dragged node on its pin, at the pointer's position
DraggedNodeMoved ==
    /\ sim # Null
    /\ graphData # Null
    /\ lastEvent.op = "view"
    /\ \E k \in 1..Len(sim[1].nodes) :
         /\ gestures[k] > 0
         /\ sim[1].nodes[k].fx # Null
         /\ sim[1].nodes[k].x = sim[1].nodes[k].fx[1]
         /\ \E position \in PointerPositions : sim[1].nodes[k].x = position.x

\* C15: drag-start pins the node where it is and, if no other drag is in
\* progress, raises the alpha target to 0.3 and restarts the simulation; a
\* drag event moves the pin to the pointer; drag-end releases the pin and, if
\* no other drag is in progress, returns the alpha target to 0; a node is
\* pinned only while it is dragged, so none is once every gesture has ended.
DragPinsWhileDragging ==
    [][sim' # Null =>
        LET old    == sim[1]
            new    == sim'[1]
            pin(k) == <<new.nodes[k].fx, new.nodes[k].fy>>
        IN  /\ lastEvent'.op = "dragStart" =>
                  \E k \in 1..Len(gestures) :
                      /\ gestures' = [gestures EXCEPT ![k] = @ + 1]
                      /\ pin(k) = <<Some(old.nodes[k].x), Some(old.nodes[k].y)>>
                      /\ IF Sum(gestures) = 0
                         THEN new.alphaTarget = 3 /\ new.running
                         ELSE new.alphaTarget = old.alphaTarget /\ new.running = old.running
            /\ lastEvent'.op = "dragMove" =>
                  \E k \in 1..Len(gestures), position \in PointerPositions :
                      /\ gestures[k] > 0 /\ gestures' = gestures
                      /\ pin(k) = <<Some(position.x), Some(position.y)>>
                      /\ new.alphaTarget = old.alphaTarget
            /\ lastEvent'.op = "dragEnd" =>
                  \E k \in 1..Len(gestures) :
                      /\ gestures' = [gestures EXCEPT ![k] = @ - 1]
                      /\ pin(k) = <<Null, Null>>
                      /\ IF Sum(gestures') = 0
                         THEN new.alphaTarget = 0
                         ELSE new.alphaTarget = old.alphaTarget
            /\ \A k \in 1..Len(new.nodes) :
                  (new.nodes[k].fx # Null \/ new.nodes[k].fy # Null) => gestures'[k] > 0
      ]_vars

\* a node was dragged to the pointer's position and let go, and no gesture is
\* left
DragCompleted ==
    /\ sim # Null
    /\ lastEvent.op = "dragEnd"
    /\ Sum(gestures) = 0
    /\ sim[1].alphaTarget = 0
    /\ \E k \in 1..Len(sim[1].nodes), position \in PointerPositions :
         /\ sim[1].nodes[k].x = position.x
         /\ sim[1].nodes[k].y = position.y
         /\ sim[1].nodes[k].fx = Null

(***************************************************************************)
(* The resize listeners                                                    *)
(***************************************************************************)
\* C16: while the component is alive and a graph is displayed, a resize of the
\* container calls renderGraph through the observer of the container, and,
\* where the runtime has no ResizeObserver, a resize of the window calls it
\* through the window's listener.
ResizeRerenders ==
    (lifecycle = "viewInit" /\ graphData # Null /\ containerInDom /\ sim # Null) =>
        /\ (lastEvent.op = "containerResized" /\ hasResizeObserver) => lastEvent.gate
        /\ (lastEvent.op = "windowResized" /\ ~hasResizeObserver) => lastEvent.gate

\* C17: after ngOnDestroy neither listener is attached, and no resize of the
\* container or of the window calls renderGraph.
NoRenderAfterDestroy ==
    lifecycle = "destroyed" =>
        /\ ~observing
        /\ ~windowListener
        /\ lastEvent.op \in {"containerResized", "windowResized"} => ~lastEvent.gate

\* the container, observed since the view was initialised, is resized after
\* the component was destroyed, while graphData is set
ResizedAfterDestroy ==
    /\ lifecycle = "destroyed"
    /\ ~containerConditional
    /\ hasResizeObserver
    /\ graphData # Null
    /\ lastEvent.op = "containerResized"

====
